---- MODULE Spec2Model ----
(***************************************************************************)
(* Model of tmenu (src/script.py): a prompt_toolkit application launcher.  *)
(* Strings are sequences of one-character strings so that lower(), strip(),*)
(* substring tests and shell-word splitting are computed, not assumed.     *)
(***************************************************************************)
EXTENDS Integers, Sequences, FiniteSets, TLC

\* ---------- Bounds ----------

\* Number of .desktop files the two scanned directories list together.
MaxFiles == 2
\* Longest text the search box holds.
MaxQuery == 2
\* Longest enumerated Exec value handed to the sanitizer on its own.
MaxExec == 4

\* ---------- Characters and strings ----------

Range(s) == {s[i] : i \in DOMAIN s}

\* str.lower() on one character of the model's alphabet.
LowerChar(c) ==
    CASE c = "A" -> "a"
      [] c = "B" -> "b"
      [] c = "T" -> "t"
      [] OTHER -> c

\* str.lower()
Lower(s) == [i \in DOMAIN s |-> LowerChar(s[i])]

\* Characters str.strip() and shlex treat as whitespace.
IsSpace(c) == c \in {" ", "\t"}

RECURSIVE LStrip(_)
LStrip(s) == IF s # <<>> /\ IsSpace(Head(s)) THEN LStrip(Tail(s)) ELSE s

RECURSIVE RStrip(_)
RStrip(s) ==
    IF s # <<>> /\ IsSpace(s[Len(s)]) THEN RStrip(SubSeq(s, 1, Len(s) - 1)) ELSE s

\* str.strip()
Strip(s) == RStrip(LStrip(s))

\* Python's `sub in s` on strings.
Contains(s, sub) ==
    \E i \in 0..(Len(s) - Len(sub)) : SubSeq(s, i + 1, i + Len(sub)) = sub

\* str.startswith
StartsWith(s, c) == s # <<>> /\ s[1] = c

\* ---------- shlex.split (posix mode, whitespace_split) ----------

ShlexInit ==
    [state |-> "ws", escapedstate |-> "a", token |-> <<>>, quoted |-> FALSE,
     out |-> <<>>, err |-> ""]

\* One character consumed by shlex.read_token.
ShlexStep(st, c) ==
    CASE st.state = "ws" ->
            IF IsSpace(c) THEN st
            ELSE IF c = "\\" THEN [st EXCEPT !.escapedstate = "a", !.state = "esc"]
            ELSE IF c = "\"" THEN [st EXCEPT !.state = "dq"]
            ELSE IF c = "'" THEN [st EXCEPT !.state = "sq"]
            ELSE [st EXCEPT !.token = <<c>>, !.state = "a"]
      [] st.state = "dq" ->
            IF c = "\"" THEN [st EXCEPT !.quoted = TRUE, !.state = "a"]
            ELSE IF c = "\\"
                 THEN [st EXCEPT !.quoted = TRUE, !.escapedstate = "dq", !.state = "esc"]
            ELSE [st EXCEPT !.quoted = TRUE, !.token = Append(@, c)]
      [] st.state = "sq" ->
            IF c = "'" THEN [st EXCEPT !.quoted = TRUE, !.state = "a"]
            ELSE [st EXCEPT !.quoted = TRUE, !.token = Append(@, c)]
      [] st.state = "esc" ->
            IF st.escapedstate = "dq" /\ c # "\\" /\ c # "\""
            THEN [st EXCEPT !.token = @ \o <<"\\", c>>, !.state = st.escapedstate]
            ELSE [st EXCEPT !.token = Append(@, c), !.state = st.escapedstate]
      [] OTHER ->
            IF IsSpace(c)
            THEN [st EXCEPT !.state = "ws", !.token = <<>>, !.quoted = FALSE,
                            !.out = IF st.token # <<>> \/ st.quoted
                                    THEN Append(@, st.token) ELSE @]
            ELSE IF c = "\"" THEN [st EXCEPT !.state = "dq"]
            ELSE IF c = "'" THEN [st EXCEPT !.state = "sq"]
            ELSE IF c = "\\" THEN [st EXCEPT !.escapedstate = "a", !.state = "esc"]
            ELSE [st EXCEPT !.token = Append(@, c)]

\* End of input reached by shlex.read_token.
ShlexEof(st) ==
    CASE st.state \in {"dq", "sq"} -> [st EXCEPT !.err = "No closing quotation"]
      [] st.state = "esc" -> [st EXCEPT !.err = "No escaped character"]
      [] st.state = "a" ->
            [st EXCEPT !.out = IF st.token # <<>> \/ st.quoted
                               THEN Append(@, st.token) ELSE @]
      [] OTHER -> st

RECURSIVE ShlexRun(_, _, _)
ShlexRun(s, i, st) ==
    IF i > Len(s) THEN ShlexEof(st) ELSE ShlexRun(s, i + 1, ShlexStep(st, s[i]))

\* shlex.split(s): [err |-> "" or the ValueError's message, out |-> tokens]
ShlexSplit(s) ==
    LET r == ShlexRun(s, 1, ShlexInit) IN [err |-> r.err, out |-> r.out]

\* A filter that knows only the field code %U.
KeepArgUnlessPercentU(arg) == arg # <<"%", "U">>

\* Tokens kept by the list comprehension of clean_exec_cmd.
KeepArg(arg) == ~StartsWith(arg, "%")

\* clean_exec_cmd(exec_cmd): the ValueError of shlex.split propagates.
clean_exec_cmd(exec_cmd) ==
    LET r == ShlexSplit(exec_cmd) IN
    IF r.err # "" THEN [err |-> r.err, argv |-> <<>>]
    ELSE [err |-> "", argv |-> SelectSeq(r.out, KeepArg)]

\* ---------- Descriptor files ----------

\* A key of the "Desktop Entry" section: absent, or present with a value.
Absent == [present |-> FALSE, val |-> <<>>]
Val(s) == [present |-> TRUE, val |-> s]

\* A .desktop file as listed by os.listdir: whether configparser reads it
\* without raising, and the keys of its "Desktop Entry" section.
Desktop(ok, name, exec, nodisplay) ==
    [ok |-> ok, Name |-> name, Exec |-> exec, NoDisplay |-> nodisplay]

NameAb == <<"A", "b">>
NameBc == <<"B", " ", "c">>
NameB == <<"B">>

\* The descriptor files the model draws directory listings from.
Descriptors ==
    { Desktop(TRUE, Val(NameAb), Val(<<"a", " ", "%", "U">>), Absent),
      Desktop(TRUE, Val(NameBc), Val(<<"%", "U">>), Val(<<"n", "o">>)),
      Desktop(TRUE, Val(NameAb), Val(<<"\"", "a">>), Absent),
      Desktop(TRUE, Val(NameAb), Val(<<"b">>), Absent),
      Desktop(TRUE, Val(NameB), Val(<<>>), Absent),
      Desktop(TRUE, Val(NameB), Val(<<"a">>), Val(<<"T", "r", "u", "e">>)),
      Desktop(TRUE, Absent, Val(<<"a">>), Absent),
      Desktop(FALSE, Val(NameB), Val(<<"a">>), Absent) }

\* Directory listings: the .desktop files of both directories in scan order.
Listings == UNION {[1..n -> Descriptors] : n \in 0..MaxFiles}

\* config.get("Desktop Entry", key, fallback=...) followed by Python truthiness
\* of the result: None and "" are both falsy.
Truthy(k) == k.present /\ k.val # <<>>

\* config.get(..., "NoDisplay", fallback="false").lower() == "true"
no_display(d) ==
    Lower(IF d.NoDisplay.present THEN d.NoDisplay.val ELSE <<"f", "a", "l", "s", "e">>)
        = <<"t", "r", "u", "e">>

\* ScanFile gating on the presence of the keys instead of their truthiness.
ScanFilePresence(acc, d) ==
    IF ~d.ok THEN acc
    ELSE IF d.Name.present /\ d.Exec.present /\ ~no_display(d)
         THEN Append(acc, <<d.Name.val, d.Exec.val>>)
         ELSE acc

\* Body of the per-file loop of list_apps: the apps list after one file.
ScanFile(acc, d) ==
    IF ~d.ok THEN acc
    ELSE IF Truthy(d.Name) /\ Truthy(d.Exec) /\ ~no_display(d)
         THEN Append(acc, <<d.Name.val, d.Exec.val>>)
         ELSE acc

\* A scan that gives up at the first file that fails to parse.
RECURSIVE ScanFromUntilFailure(_, _, _)
ScanFromUntilFailure(fs, i, acc) ==
    IF i > Len(fs) \/ ~fs[i].ok THEN acc
    ELSE ScanFromUntilFailure(fs, i + 1, ScanFile(acc, fs[i]))

RECURSIVE ScanFrom(_, _, _)
ScanFrom(fs, i, acc) ==
    IF i > Len(fs) THEN acc ELSE ScanFrom(fs, i + 1, ScanFile(acc, fs[i]))

\* list_apps()
list_apps(fs) == ScanFrom(fs, 1, <<>>)

\* all_app_names = [a[0] for a in apps]
AllAppNames(as) == [i \in DOMAIN as |-> as[i][1]]

\* A dict that keeps the first command seen for a name.
AppDictFirstWins(as) ==
    [n \in {as[i][1] : i \in DOMAIN as} |->
        as[CHOOSE i \in DOMAIN as :
              /\ as[i][1] = n
              /\ \A j \in DOMAIN as : as[j][1] = n => j >= i][2]]

\* app_dict = {name: cmd for name, cmd in apps}: a later pair overwrites.
AppDict(as) ==
    [n \in {as[i][1] : i \in DOMAIN as} |->
        as[CHOOSE i \in DOMAIN as :
              /\ as[i][1] = n
              /\ \A j \in DOMAIN as : as[j][1] = n => j <= i][2]]

\* ---------- State ----------

VARIABLES
    files,          \* the .desktop files as listed at startup
    apps,           \* module-level `apps`
    all_app_names,  \* module-level `all_app_names`
    app_dict,       \* module-level `app_dict`
    text,           \* search_box.text
    filtered_apps,  \* module-level `filtered_apps`
    focus_index,    \* focus_index[0]
    pc,             \* "idle" | "modal" | "exited" | "crashed"
    modal,          \* the error dialog raised by the last handler; shown while on screen
    popen_calls,    \* argument vectors handed to subprocess.Popen by the last handler
    last,           \* the last key event and the state it found
    run,            \* consecutive Down events on an unchanged list
    raw_exec,       \* argument of a call of clean_exec_cmd made on its own
    argv_out        \* what that call returned, once it has

vars == <<files, apps, all_app_names, app_dict, text, filtered_apps, focus_index,
          pc, modal, popen_calls, last, run, raw_exec, argv_out>>

sanitizer == <<raw_exec, argv_out>>

NotCalled == [done |-> FALSE, err |-> "", argv |-> <<>>]

index == <<files, apps, app_dict>>

NoModal == [shown |-> FALSE, name |-> <<>>, detail |-> ""]

Init ==
    /\ files \in Listings
    /\ apps = list_apps(files)
    /\ all_app_names = AllAppNames(apps)
    /\ app_dict = AppDict(apps)
    /\ text = <<>>
    /\ filtered_apps = all_app_names
    /\ focus_index = 0
    /\ pc = "idle"
    /\ modal = NoModal
    /\ popen_calls = <<>>
    /\ last = [key |-> "", text |-> <<>>, idx |-> 0, n |-> 0]
    /\ run = [start |-> 0, count |-> 0]
    /\ raw_exec = <<>>
    /\ argv_out = NotCalled

\* ---------- Session state touched by the handlers ----------

\* `names` is the list object all_app_names, which the handlers can reach as
\* they reach filtered_apps.
Cur ==
    [text |-> text, filtered |-> filtered_apps, focus |-> focus_index,
     names |-> all_app_names]

Min(a, b) == IF a < b THEN a ELSE b
Max(a, b) == IF a > b THEN a ELSE b

\* set_focus without its emptiness guard.
set_focus_unguarded(st, idx) ==
    [st EXCEPT !.focus = Min(Max(idx, 0), Len(st.filtered) - 1)]

\* set_focus(idx)
set_focus(st, idx) ==
    IF st.filtered # <<>>
    THEN [st EXCEPT !.focus = Min(Max(idx, 0), Len(st.filtered) - 1)]
    ELSE st

\* Filter comparing against the name as written, not lower-cased.
FilterCaseSensitive(t) == SelectSeq(all_app_names, LAMBDA a : Contains(a, t))

\* Filter listing the matches last-indexed first.
FilterReversed(t) ==
    LET m == SelectSeq(all_app_names, LAMBDA a : Contains(Lower(a), t))
    IN  [i \in DOMAIN m |-> m[Len(m) + 1 - i]]

\* [a for a in all_app_names if text in a.lower()]
Filter(t) == SelectSeq(all_app_names, LAMBDA a : Contains(Lower(a), t))

\* on_search_change filtering the list of all names in place as well.
on_search_change_in_place(st) ==
    set_focus([st EXCEPT !.filtered = Filter(Lower(Strip(st.text))),
                         !.names = Filter(Lower(Strip(st.text)))], 0)

\* on_search_change that forgets set_focus(0).
on_search_change_keep_focus(st) ==
    [st EXCEPT !.filtered = Filter(Lower(Strip(st.text)))]

\* on_search_change(_buf); rebuild_rows and layout.focus change no modelled state.
on_search_change(st) ==
    set_focus([st EXCEPT !.filtered = Filter(Lower(Strip(st.text)))], 0)

\* Assignment to the buffer's text: on_text_changed fires only if it differs.
SetText(st, t) ==
    IF t # st.text THEN on_search_change([st EXCEPT !.text = t]) ELSE st

\* move_up that homes the focus when the list is empty.
move_up_home_on_empty(st) ==
    IF st.filtered # <<>>
    THEN set_focus(st, (st.focus - 1) % Len(st.filtered))
    ELSE [st EXCEPT !.focus = 0]

\* move_up(event)
move_up(st) ==
    IF st.filtered # <<>>
    THEN set_focus(st, (st.focus - 1) % Len(st.filtered))
    ELSE st

\* move_down without the wrap-around.
move_down_no_wrap(st) ==
    IF st.filtered # <<>>
    THEN set_focus(st, st.focus + 1)
    ELSE st

\* move_down(event)
move_down(st) ==
    IF st.filtered # <<>>
    THEN set_focus(st, (st.focus + 1) % Len(st.filtered))
    ELSE st

\* The reset of launch without its set_focus(0).
launch_reset_keep_focus(st) ==
    [SetText(st, <<>>) EXCEPT !.filtered = all_app_names]

\* "Reset search and list" at the end of launch.
launch_reset(st) ==
    set_focus([SetText(st, <<>>) EXCEPT !.filtered = all_app_names], 0)

\* app_dict.get(name)
DictGet(name) == IF name \in DOMAIN app_dict THEN Val(app_dict[name]) ELSE Absent

\* What subprocess.Popen may answer: "" when the process started, else the
\* message of the exception it raised.
SpawnOutcomes == {"", "Permission denied"}

\* subprocess.Popen(argv, start_new_session=True): args[0] of an empty list
\* raises IndexError before anything is spawned.
Popen(argv, o) == IF argv = <<>> THEN "list index out of range" ELSE o

\* f"Error launching {name}:\n{e}" shown by show_error
ErrorModal(name, e) == [shown |-> TRUE, name |-> name, detail |-> e]

\* launch resetting the session before the dialog is shown.
launch_failed_reset_first(st, name, e, calls) ==
    [st |-> set_focus([SetText(st, <<>>) EXCEPT !.filtered = all_app_names], 0),
     pc |-> "modal", modal |-> ErrorModal(name, e), calls |-> calls]

\* launch with shlex.split evaluated outside the try block: its ValueError
\* leaves the handler uncaught.
launch_failed_split_uncaught(st, name, e, calls) ==
    IF calls = <<>>
    THEN [st |-> st, pc |-> "crashed", modal |-> NoModal, calls |-> calls]
    ELSE [st |-> st, pc |-> "modal", modal |-> ErrorModal(name, e), calls |-> calls]

\* launch trying Popen a second time before it reports the failure.
launch_failed_retry(st, name, e, calls) ==
    [st |-> st, pc |-> "modal", modal |-> ErrorModal(name, e),
     calls |-> calls \o calls]

\* except Exception as e: show_error(...) -- the dialog blocks the handler
\* before any of the reset below it has run.
launch_failed(st, name, e, calls) ==
    [st |-> st, pc |-> "modal", modal |-> ErrorModal(name, e), calls |-> calls]

\* launch with the reset moved out of `if filtered_apps:`.
launch_on_empty_reset(st) ==
    [st |-> launch_reset(st), pc |-> "idle", modal |-> NoModal, calls |-> <<>>]

\* launch when `if filtered_apps:` fails: the whole body is skipped.
launch_on_empty(st) ==
    [st |-> st, pc |-> "idle", modal |-> NoModal, calls |-> <<>>]

\* launch(event) up to the point where it returns or blocks in show_error.
\* o is the answer subprocess.Popen gives if it is called.
launch(st, o) ==
    IF st.filtered = <<>>
    THEN launch_on_empty(st)
    ELSE IF st.focus \notin 0..(Len(st.filtered) - 1)
    THEN [st |-> st, pc |-> "crashed", modal |-> NoModal, calls |-> <<>>]
    ELSE
      LET name == st.filtered[st.focus + 1]
          cmd == DictGet(name)
          r == clean_exec_cmd(cmd.val)
          e == IF r.err # "" THEN r.err ELSE Popen(r.argv, o)
          calls == IF r.err # "" THEN <<>> ELSE <<r.argv>>
      IN  IF ~Truthy(cmd)
          THEN [st |-> launch_reset(st), pc |-> "idle", modal |-> NoModal,
                calls |-> <<>>]
          ELSE IF e = ""
          THEN [st |-> launch_reset(st), pc |-> "idle", modal |-> NoModal,
                calls |-> calls]
          ELSE launch_failed(st, name, e, calls)

\* ---------- Key events ----------

\* Keys registered on `kb`; an exact binding wins over the text area's
\* insert-any-character binding.
Bound(k) == k \in {"up", "down", "enter", "q", "c-c"}

\* Printable keys the model presses.
Printable == {"a", "B", " ", "q"}

Commit(st) ==
    /\ text' = st.text
    /\ filtered_apps' = st.filtered
    /\ focus_index' = st.focus
    /\ all_app_names' = st.names

Seen(k) ==
    last' = [key |-> k, text |-> text, idx |-> focus_index, n |-> Len(filtered_apps)]

NewRun == run' = [start |-> focus_index', count |-> 0]

\* A printable key that no binding of `kb` takes: inserted into the search box.
TypeChar(c) ==
    /\ pc = "idle"
    /\ ~Bound(c)
    /\ Len(text) < MaxQuery
    /\ Commit(SetText(Cur, Append(text, c)))
    /\ Seen(c)
    /\ NewRun
    /\ popen_calls' = <<>>
    /\ modal' = NoModal
    /\ UNCHANGED <<index, pc, sanitizer>>

\* Backspace in the search box.
Backspace ==
    /\ pc = "idle"
    /\ text # <<>>
    /\ Commit(SetText(Cur, SubSeq(text, 1, Len(text) - 1)))
    /\ Seen("backspace")
    /\ NewRun
    /\ popen_calls' = <<>>
    /\ modal' = NoModal
    /\ UNCHANGED <<index, pc, sanitizer>>

MoveUp ==
    /\ pc = "idle"
    /\ Commit(move_up(Cur))
    /\ Seen("up")
    /\ NewRun
    /\ popen_calls' = <<>>
    /\ modal' = NoModal
    /\ UNCHANGED <<index, pc, sanitizer>>

MoveDown ==
    /\ pc = "idle"
    /\ Commit(move_down(Cur))
    /\ Seen("down")
    /\ run' = IF filtered_apps = <<>> THEN [start |-> focus_index, count |-> 0]
              ELSE IF run.count < Len(filtered_apps)
              THEN [run EXCEPT !.count = @ + 1]
              ELSE [start |-> focus_index, count |-> 1]
    /\ popen_calls' = <<>>
    /\ modal' = NoModal
    /\ UNCHANGED <<index, pc, sanitizer>>

Launch ==
    /\ pc = "idle"
    /\ \E o \in SpawnOutcomes :
          LET r == launch(Cur, o) IN
          /\ Commit(r.st)
          /\ pc' = r.pc
          /\ modal' = r.modal
          /\ popen_calls' = r.calls
    /\ Seen("enter")
    /\ NewRun
    /\ UNCHANGED <<index, sanitizer>>

\* The user dismisses the error dialog: show_error returns and launch goes on.
DismissError ==
    /\ pc = "modal"
    /\ Commit(launch_reset(Cur))
    /\ pc' = "idle"
    /\ modal' = [modal EXCEPT !.shown = FALSE]
    /\ NewRun
    /\ UNCHANGED <<index, popen_calls, last, sanitizer>>

\* exit_(event), bound to q and Ctrl-C
Exit(k) ==
    /\ pc = "idle"
    /\ Seen(k)
    /\ pc' = "exited"
    /\ popen_calls' = <<>>
    /\ modal' = NoModal
    /\ UNCHANGED <<index, all_app_names, text, filtered_apps, focus_index, run,
                   sanitizer>>

Next ==
    \/ \E c \in Printable : TypeChar(c)
    \/ Backspace
    \/ MoveUp
    \/ MoveDown
    \/ Launch
    \/ DismissError
    \/ \E k \in {"q", "c-c"} : Exit(k)

Spec == Init /\ [][Next]_vars

\* ---------- clean_exec_cmd on its own ----------

\* Characters of the enumerated Exec values.
ExecChars == {"a", "%", " ", "\""}

ExecApp == <<"a", "p", "p">>
ExecAppFlag ==
    <<"a", "p", "p", " ", "%", "U", " ", "-", "-", "f", "l", "a", "g", " ", "%", "f">>

\* Exec values handed to clean_exec_cmd: every string over ExecChars up to
\* MaxExec characters, and the two longer command lines.
ExecInputs ==
    UNION {[1..n -> ExecChars] : n \in 0..MaxExec} \cup {ExecApp, ExecAppFlag}

SanInit ==
    /\ files = <<>>
    /\ apps = list_apps(files)
    /\ all_app_names = AllAppNames(apps)
    /\ app_dict = AppDict(apps)
    /\ text = <<>>
    /\ filtered_apps = all_app_names
    /\ focus_index = 0
    /\ pc = "idle"
    /\ modal = NoModal
    /\ popen_calls = <<>>
    /\ last = [key |-> "", text |-> <<>>, idx |-> 0, n |-> 0]
    /\ run = [start |-> 0, count |-> 0]
    /\ raw_exec \in ExecInputs
    /\ argv_out = NotCalled

\* One call clean_exec_cmd(raw_exec).
Sanitize ==
    /\ ~argv_out.done
    /\ argv_out' = [done |-> TRUE, err |-> clean_exec_cmd(raw_exec).err,
                    argv |-> clean_exec_cmd(raw_exec).argv]
    /\ UNCHANGED <<index, all_app_names, text, filtered_apps, focus_index, pc,
                   modal, popen_calls, last, run, raw_exec>>

SanNext == Sanitize

SanSpec == SanInit /\ [][SanNext]_vars

TypeOK ==
    /\ pc \in {"idle", "modal", "exited", "crashed"}
    /\ focus_index \in 0..MaxFiles
    /\ Len(text) <= MaxQuery

\* ---------- Properties ----------

\* Keys that change the text of the search box.
TextKeys == {c \in Printable : ~Bound(c)} \cup {"backspace"}

\* The Enter handler has run to its end on a non-empty visible list.
EnterDone == last.key = "enter" /\ last.n > 0 /\ pc = "idle"

\* C1: after an Enter launch attempt on a non-empty visible list, whatever
\* the outcome, the handler ends with query = "", visible names = all
\* indexed names in index order, focus index = 0.
PostLaunchReset ==
    EnterDone => text = <<>> /\ filtered_apps = all_app_names /\ focus_index = 0

\* Enter was pressed with the focus off the first row and the spawn succeeded.
PostLaunchResetWitness ==
    EnterDone /\ last.idx > 0 /\ popen_calls # <<>> /\ modal = NoModal

\* C2: in every reachable state with a non-empty visible list, the focus
\* index lies in 0 .. len(visible_names) - 1.
FocusInRange ==
    filtered_apps # <<>> => focus_index \in 0..(Len(filtered_apps) - 1)

\* A text change shrank the list to no more rows than the old focus index.
FocusInRangeWitness ==
    /\ last.key \in TextKeys
    /\ filtered_apps # <<>>
    /\ last.idx >= Len(filtered_apps)

\* N is in visible_names.
Visible(N) == N \in Range(filtered_apps)

\* C3 as stated: after a text change to query Q, an indexed name N is visible
\* iff lowercase(Q) is a substring of lowercase(N), whitespace of Q included.
FilterMatchesRawQuery ==
    last.key \in TextKeys =>
        \A N \in Range(all_app_names) :
            Visible(N) <=> Contains(Lower(N), Lower(text))

\* C3 amended: after a text change to query Q, an indexed name N is visible
\* iff the lower-cased Q with its leading and trailing whitespace removed is
\* a substring of lowercase(N).
FilterMatchesStrippedQuery ==
    last.key \in TextKeys =>
        \A N \in Range(all_app_names) :
            Visible(N) <=> Contains(Lower(N), Strip(Lower(text)))

\* A query with surrounding whitespace selected some but not all names.
FilterMatchesStrippedQueryWitness ==
    /\ last.key \in TextKeys
    /\ Strip(text) # text
    /\ filtered_apps # <<>>
    /\ Len(filtered_apps) < Len(all_app_names)

\* C4 as stated: a query change sets the focus index to 0 unconditionally,
\* also when the new visible list is empty.
FocusZeroAfterQueryChange ==
    last.key \in TextKeys => focus_index = 0

\* C4 amended: a query change sets the focus index to 0 when the new visible
\* list is non-empty and leaves it as it was when the new list is empty.
FocusZeroAfterQueryChangeIfNonEmpty ==
    last.key \in TextKeys =>
        IF filtered_apps # <<>> THEN focus_index = 0 ELSE focus_index = last.idx

\* A query change emptied the list while the focus was off the first row.
FocusZeroAfterQueryChangeWitness ==
    last.key \in TextKeys /\ filtered_apps = <<>> /\ last.idx > 0

\* The command of the entry whose launch raised the dialog sanitizes to an
\* empty argument vector.
EmptyCommandFailed ==
    /\ pc = "modal"
    /\ modal.name \in DOMAIN app_dict
    /\ clean_exec_cmd(app_dict[modal.name]) = [err |-> "", argv |-> <<>>]

\* C5: when the focused entry's command sanitizes to an empty argument
\* vector, Enter fails with reason "empty command" and Popen is never handed
\* an empty argv.
EmptyCommandNotSpawned ==
    /\ EmptyCommandFailed => modal.detail = "empty command"
    /\ \A i \in DOMAIN popen_calls : popen_calls[i] # <<>>

\* One step of the Enter handler around the error dialog.
ErrorThenResetStep ==
    /\ (pc = "idle" /\ pc' = "modal" /\ popen_calls' # <<>> /\ popen_calls'[1] # <<>>) =>
          /\ modal'.shown
          /\ modal'.name = filtered_apps[focus_index + 1]
          /\ modal'.detail \in SpawnOutcomes \ {""}
          /\ UNCHANGED <<text, filtered_apps, focus_index>>
    /\ pc = "modal" =>
          /\ pc' = "idle"
          /\ ~modal'.shown
          /\ last' = last
          /\ text' = <<>>
          /\ filtered_apps' = all_app_names
          /\ focus_index' = 0

\* C6: when Popen raises, the dialog naming the entry and carrying Popen's
\* message is shown with the session untouched; the only step out of the
\* dialog is its dismissal, which resets query, visible names and focus, and
\* no key event is taken before that.
ErrorThenReset == [][ErrorThenResetStep]_vars

\* A dialog for a failed spawn was dismissed after a launch made with a
\* non-empty query and the focus off the first row.
ErrorThenResetWitness ==
    /\ EnterDone
    /\ ~modal.shown
    /\ modal.detail = "Permission denied"
    /\ last.text # <<>>
    /\ last.idx > 0

\* The pair the scanner appends for a descriptor.
Pair(d) == <<d.Name.val, d.Exec.val>>

\* NoDisplay is, case-insensitively, "true".
NoDisplayTrue(d) == d.NoDisplay.present /\ Lower(d.NoDisplay.val) = <<"t", "r", "u", "e">>

\* Name and Exec are present.
KeysPresent(d) == d.Name.present /\ d.Exec.present

\* Name and Exec are present with non-empty values.
KeysNonEmpty(d) == KeysPresent(d) /\ d.Name.val # <<>> /\ d.Exec.val # <<>>

\* How often the index holds the pair p.
Indexed(p) == Cardinality({i \in DOMAIN apps : apps[i] = p})

\* C7 as stated: a parsed descriptor is indexed iff Name and Exec are both
\* present and NoDisplay is not "true"; an empty Exec still gets indexed.
IndexedIffKeysPresent ==
    \A d \in Descriptors :
        Indexed(Pair(d)) =
            Cardinality({i \in DOMAIN files :
                /\ files[i].ok /\ Pair(files[i]) = Pair(d)
                /\ KeysPresent(files[i]) /\ ~NoDisplayTrue(files[i])})

\* C7 amended: a parsed descriptor is indexed iff Name and Exec are both
\* present with non-empty values and NoDisplay is not "true".
IndexedIffKeysNonEmpty ==
    \A d \in Descriptors :
        Indexed(Pair(d)) =
            Cardinality({i \in DOMAIN files :
                /\ files[i].ok /\ Pair(files[i]) = Pair(d)
                /\ KeysNonEmpty(files[i]) /\ ~NoDisplayTrue(files[i])})

\* A listing with an empty Exec next to a descriptor that is indexed.
IndexedIffKeysNonEmptyWitness ==
    /\ \E i \in DOMAIN files : files[i].ok /\ files[i].Exec = Val(<<>>)
    /\ apps # <<>>

\* C8: every printable key pressed while the search box has the focus, the
\* letter q included, is appended to the query, which is filtered anew, and
\* does not end the launcher.
PrintableKeyAppends ==
    last.key \in Printable =>
        /\ pc # "exited"
        /\ text = Append(last.text, last.key)
        /\ filtered_apps = Filter(Lower(Strip(text)))

\* C9: with N > 0 visible rows, N Down events from any start index bring the
\* focus back to it, Up from index 0 gives N-1, Down from N-1 gives 0.
FocusWrap ==
    /\ (filtered_apps # <<>> /\ run.count = Len(filtered_apps)) =>
          focus_index = run.start
    /\ (last.key = "up" /\ last.n > 0 /\ last.idx = 0) =>
          focus_index = last.n - 1
    /\ (last.key = "down" /\ last.n > 0 /\ last.idx = last.n - 1) =>
          focus_index = 0

\* A full round of Down events on two or more rows, begun off the first row.
FocusWrapWitness ==
    /\ Len(filtered_apps) >= 2
    /\ run.count = Len(filtered_apps)
    /\ run.start > 0
    /\ last.key = "down"

\* C10: on an empty visible list Up and Down leave the focus index, the
\* query and the visible list as they were and raise no error.
MoveOnEmptyIsNoOp ==
    (last.key \in {"up", "down"} /\ last.n = 0) =>
        /\ focus_index = last.idx
        /\ text = last.text
        /\ filtered_apps = <<>>
        /\ pc = "idle"

\* Up or Down was pressed on a list a query had emptied, the focus index
\* still holding a row number of the earlier list.
MoveOnEmptyIsNoOpWitness ==
    /\ last.key \in {"up", "down"}
    /\ last.n = 0
    /\ all_app_names # <<>>
    /\ last.idx > 0

\* The listing os.listdir would have returned had it put the files in the
\* order p.  Where the first directory ends in `files` is not recorded; a
\* single directory holding all of them is one of the cases.
Relisted(p) == [i \in DOMAIN files |-> files[p[i]]]

\* C11: for a fixed set of descriptor files the index order, and with it the
\* entry that wins on a duplicate name, is the same whatever order the
\* filesystem lists the files in.
ListingOrderIrrelevant ==
    \A p \in Permutations(DOMAIN files) :
        /\ list_apps(Relisted(p)) = apps
        /\ AppDict(list_apps(Relisted(p))) = app_dict

\* The descriptor file i passes the scanner's inclusion test.
Scanned(i) ==
    files[i].ok /\ KeysNonEmpty(files[i]) /\ ~NoDisplayTrue(files[i])

\* The Exec of the descriptor scanned last among those named `name`.
LatestExec(name) ==
    LET i == CHOOSE k \in DOMAIN files :
                 /\ Scanned(k) /\ files[k].Name.val = name
                 /\ \A j \in DOMAIN files :
                        (Scanned(j) /\ files[j].Name.val = name) => j <= k
    IN files[i].Exec.val

\* An Enter that hands a command to Popen hands it the sanitized Exec of the
\* last-scanned descriptor carrying the focused row's name.
SpawnsLatestDuplicateStep ==
    (pc = "idle" /\ last'.key = "enter" /\ popen_calls' # <<>>) =>
        popen_calls'[1] =
            clean_exec_cmd(LatestExec(filtered_apps[focus_index + 1])).argv

\* C12: when several scanned descriptors share a display name, launching that
\* name from any of its rows spawns the command of the descriptor scanned
\* last with that name.
SpawnsLatestDuplicate == [][SpawnsLatestDuplicateStep]_vars

\* Two descriptors named "Ab" were scanned; Enter on the row of the first one
\* spawned the command "b" of the second.
SpawnsLatestDuplicateWitness ==
    /\ EnterDone
    /\ last.idx = 0
    /\ all_app_names = <<NameAb, NameAb>>
    /\ apps[1][2] # <<"b">>
    /\ popen_calls = << <<"b">> >>
    /\ modal = NoModal

\* The words of s between runs of whitespace, for an s without quotes or
\* backslashes.
RECURSIVE WordsFrom(_, _)
WordsFrom(s, i) ==
    IF i > Len(s) THEN <<>>
    ELSE IF s[i] = " " THEN WordsFrom(s, i + 1)
    ELSE LET j == CHOOSE k \in i..Len(s) :
                      /\ \A m \in i..k : s[m] # " "
                      /\ (k = Len(s) \/ s[k + 1] = " ")
         IN  <<SubSeq(s, i, j)>> \o WordsFrom(s, j + 1)

Unquoted(s) == \A i \in DOMAIN s : s[i] \notin {"\"", "'", "\\"}

\* C13: the sanitizer returns exactly the shell-split tokens of raw_exec that
\* do not begin with '%', in their original order; "app %U --flag %f" gives
\* ["app", "--flag"], "app" gives ["app"], "" gives [].
SanitizerDropsFieldCodes ==
    argv_out.done =>
        /\ raw_exec = ExecAppFlag =>
              argv_out.err = "" /\ argv_out.argv = <<ExecApp, <<"-", "-", "f", "l", "a", "g">> >>
        /\ raw_exec = ExecApp => argv_out.err = "" /\ argv_out.argv = <<ExecApp>>
        /\ raw_exec = <<>> => argv_out.err = "" /\ argv_out.argv = <<>>
        /\ Unquoted(raw_exec) =>
              /\ argv_out.err = ""
              /\ argv_out.argv = SelectSeq(WordsFrom(raw_exec, 1), LAMBDA w : w[1] # "%")
        /\ \A i \in DOMAIN argv_out.argv :
              argv_out.argv[i] = <<>> \/ argv_out.argv[i][1] # "%"

\* clean_exec_cmd has returned for "app %U --flag %f".
SanitizerDropsFieldCodesWitness ==
    argv_out.done /\ raw_exec = ExecAppFlag /\ Len(argv_out.argv) = 2

\* C14: the launcher ends only on q or Ctrl-C; no launch failure (spawn
\* error, malformed quoting, empty argv) ends or crashes it, and once the
\* failure's dialog is dismissed it is idle again, taking key events.
OnlyQuitEnds ==
    /\ pc # "crashed"
    /\ pc = "exited" => last.key \in {"q", "c-c"}
    /\ pc = "modal" => modal.shown /\ modal.detail # ""
    /\ (modal.detail # "" /\ ~modal.shown) => pc = "idle"

\* The dialog of a launch that failed on malformed quoting was dismissed.
OnlyQuitEndsWitness ==
    /\ pc = "idle"
    /\ ~modal.shown
    /\ modal.detail = "No closing quotation"
    /\ popen_calls = <<>>

\* The listing with the files that fail to parse taken out.
ParsedFiles == SelectSeq(files, LAMBDA d : d.ok)

\* C15: a descriptor file whose parse or read fails contributes no entry, and
\* every other file, before or after it, contributes exactly as if the
\* failing file were absent.
FailingFileSkipped ==
    /\ apps = list_apps(ParsedFiles)
    /\ Len(apps) <= Len(ParsedFiles)

\* A file that fails to parse is listed before a file that is indexed.
FailingFileSkippedWitness ==
    \E i, j \in DOMAIN files : i < j /\ ~files[i].ok /\ Scanned(j) /\ apps # <<>>

\* s can be obtained from t by deleting elements.
RECURSIVE IsSubsequence(_, _)
IsSubsequence(s, t) ==
    IF s = <<>> THEN TRUE
    ELSE IF t = <<>> THEN FALSE
    ELSE IF Head(s) = Head(t) THEN IsSubsequence(Tail(s), Tail(t))
    ELSE IsSubsequence(s, Tail(t))

\* C16: in every reachable state the visible names are a subsequence of the
\* index's names: only indexed names, in their index order.
VisibleIsSubsequence == IsSubsequence(filtered_apps, all_app_names)

\* A non-empty query left two different names visible.
VisibleIsSubsequenceWitness ==
    /\ last.key \in TextKeys
    /\ text # <<>>
    /\ Len(filtered_apps) >= 2
    /\ filtered_apps[1] # filtered_apps[2]

\* C17: no event changes the application index after startup: the list of
\* all names and the name-to-command mapping stay as the scan left them,
\* also across the post-launch reset that copies all names into the visible
\* list.
IndexNeverModified == [][UNCHANGED <<apps, all_app_names, app_dict>>]_vars

\* A launch made on a list a query had shortened has copied all names back.
IndexNeverModifiedWitness ==
    /\ EnterDone
    /\ last.text # <<>>
    /\ last.n < Len(all_app_names)
    /\ filtered_apps = all_app_names
    /\ all_app_names = AllAppNames(list_apps(files))

\* C18: every visible name has a command in the name-to-command mapping, so
\* an Enter on a non-empty list never takes the branch that finds no command:
\* it either hands a command to Popen or fails while sanitizing one.
VisibleNamesHaveCommand ==
    /\ \A n \in Range(filtered_apps) : n \in DOMAIN app_dict /\ app_dict[n] # <<>>
    /\ (last.key = "enter" /\ last.n > 0) => popen_calls # <<>> \/ modal.detail # ""

\* Enter launched a name picked out of two different ones by a query.
VisibleNamesHaveCommandWitness ==
    /\ EnterDone
    /\ last.text # <<>>
    /\ last.n = 1
    /\ Cardinality(Range(all_app_names)) = 2
    /\ popen_calls # <<>>

\* C19: Enter on an empty visible list spawns nothing, shows no error and
\* leaves the query, the visible list and the focus index as they were; the
\* session is not reset.
EnterOnEmptyIsNoOp ==
    (last.key = "enter" /\ last.n = 0) =>
        /\ pc = "idle"
        /\ popen_calls = <<>>
        /\ modal = NoModal
        /\ text = last.text
        /\ filtered_apps = <<>>
        /\ focus_index = last.idx

\* Enter was pressed on a list that a query matching nothing had emptied.
EnterOnEmptyIsNoOpWitness ==
    /\ last.key = "enter"
    /\ last.n = 0
    /\ text # <<>>
    /\ all_app_names # <<>>

\* What one step does to the requests made of subprocess.Popen.
SpawnOnlyInEnterStep ==
    /\ Len(popen_calls') <= 1
    /\ (pc = "idle" /\ last'.key # "enter") => popen_calls' = <<>>
    /\ (pc = "idle" /\ popen_calls' # <<>>) =>
          /\ last'.key = "enter"
          /\ focus_index \in 0..(Len(filtered_apps) - 1)
          /\ LET r == clean_exec_cmd(app_dict[filtered_apps[focus_index + 1]])
             IN  r.err = "" /\ popen_calls'[1] = r.argv
    /\ pc # "idle" => popen_calls' = popen_calls

\* C20: Popen is requested only by the Enter handler, at most once per Enter,
\* and with the sanitized command of the name under the focus when Enter was
\* pressed; text changes, Up, Down, quit and the dialog's dismissal request
\* no spawn.
SpawnOnlyInEnter == [][SpawnOnlyInEnterStep]_vars

\* Enter on the second row requested one spawn, which raised.
SpawnOnlyInEnterWitness ==
    /\ EnterDone
    /\ last.idx = 1
    /\ Len(popen_calls) = 1
    /\ popen_calls[1] # <<>>
    /\ modal.detail = "Permission denied"
====
